---- MODULE Spec2Model ----
(***************************************************************************)
(* Model of the Hungry-Hippo game scene (Game.ts) and its score ledgers.  *)
(* One client is modelled: the Phaser scene `Game`, the `Scoreboard` it    *)
(* owns, the event bus it publishes on and the send function it may have   *)
(* attached.  Every handler of the scene (a public method, an overlap      *)
(* callback, the spawn timer callback, the external-score-update handler)  *)
(* is one atomic action: the host runs them on one thread.                 *)
(***************************************************************************)
EXTENDS Integers, Sequences, FiniteSets, TLC

VARIABLES
    created,             \* create() has run: foods group, scoreboard and handlers exist
    playerScores,        \* Game.playerScores: the ledger collisions mutate
    scoreboardTexts,     \* Game.scoreboardTexts: the lines drawn by updateScoreboard
    sbScores,            \* Scoreboard.playerScores: the ledger setScore overwrites
    scoreText,           \* Scoreboard.scoreText: the lines drawn by updateScoreText
    players,             \* keys of Game.players: ids that own a player sprite
    foods,               \* Game.foods: live items, item id -> [key, x, y]
    spawned,             \* number of items created so far (item ids are 1..spawned)
    foodKeys,            \* Game.foodKeys: the allow-list of the spawner
    currentTargetFoodId, \* Game.currentTargetFoodId
    sendMessageToServer, \* Game.sendMessageToServer: Null or the attached function
    foodSpawnTimer,      \* Game.foodSpawnTimer: Null or the stored timer handle
    timers,              \* number of repeating timer events registered with the clock
    out,                 \* what the last handler published and sent, in order
    hits,                \* item id -> number of collisions scored for the item
    call,                \* <<>>, or the last handler's call when it was a collision or
                         \* an inbound scoreUpdate: its arguments, the ledger it found
    \* a peer that relays its scores to this client over a lossy channel
    peerScores,          \* the peer's Game.playerScores
    heardAll,            \* Scoreboard.playerScores here when every message arrives
    heardSome,           \* Scoreboard.playerScores here when messages are dropped
    lastHeard,           \* the peer's latest message arrived
    missed,              \* some message of the peer was dropped
    \* the page around the scene: the WebSocket context and two components
    lastMessage,         \* useWebSocket().lastMessage: <<>> (null) or <<message>>
    timeLeft,            \* GameTimer's state: <<>> (null) or <<seconds>>
    liveScores,          \* LiveScoreboard's state `scores'
    timerDue,            \* GameTimer's effect has to run for the current lastMessage
    boardDue,            \* LiveScoreboard's effect has to run for it
    timerHeard,          \* <<>>, or the last TIMER_UPDATE / GAME_OVER message that
                         \* GameTimer's effect has run for
    boardHeard,          \* <<>>, or the last scoreUpdate message that
                         \* LiveScoreboard's effect has run for
    \* a Hippo, as Hippo.test.ts drives it
    mouthOpen,           \* what isMouthOpen() returns
    setFrame,            \* the argument of the last setFrame call, <<>> before one
    toggles,             \* the toggleMouth calls so far
    moveStrategy,        \* the strategy update() delegates to
    hippoX,              \* the sprite's x
    hippoY,              \* the sprite's y
    \* game objects of the scene that are not items
    bodies               \* the live ones

\* the scene of this client
scene == <<created, playerScores, scoreboardTexts, sbScores, scoreText, players,
           foods, spawned, foodKeys, currentTargetFoodId, sendMessageToServer,
           foodSpawnTimer, timers, out, hits, call>>

\* the relay between a peer's scene and this client's scoreboard
relay == <<peerScores, heardAll, heardSome, lastHeard, missed>>

\* the React page
page == <<lastMessage, timeLeft, liveScores, timerDue, boardDue, timerHeard,
         boardHeard>>

\* the Hippo object
hippo == <<mouthOpen, setFrame, toggles, moveStrategy, hippoX, hippoY>>

\* what the handlers of the scene, of the relay, of the page and of the Hippo do
\* not touch
offScene == <<relay, page, hippo, bodies>>

offRelay == <<scene, page, hippo, bodies>>

offPage == <<scene, relay, hippo, bodies>>

offHippo == <<scene, relay, page, bodies>>

vars == <<scene, relay, page, hippo, bodies>>

----------------------------------------------------------------------------
(* Bounds of the model *)

\* items created in one run (the spawn actions stop there)
MaxItems == 2

\* the largest absolute score the calls to incrementScore build up
MaxLedgerScore == 4

\* the toggleMouth calls a Hippo receives
MaxToggles == 4

\* what a Hippo's update can delegate to: the mock strategy of the tests and an
\* EdgeSlideStrategy for each edge
Strategies == {"mock", "top", "bottom", "left", "right"}

\* the scene of the EdgeSlideStrategy tests and the distance it keeps from an edge
sceneWidth == 800

sceneHeight == 600

edgeOffset == 64

\* the largest timeLeft a TIMER_UPDATE message reports
MaxTimeLeft == 2

\* the score at which the peer of the relay stops eating target items
MaxPeerScore == 2

(* Values *)

Null == "null"

EmptyRec == [id \in {} |-> 0]

PlayerIds == {"host", "p1"}

FoodIds == {"apple", "banana"}

\* game objects that are not items: a zone is a GameObject without a texture, an
\* image has a texture and is not a Phaser.GameObjects.Sprite
Bodies == {"zone", "image"}

\* the allow-lists setFoodKeys is called with
KeyLists == {<<>>, <<"apple">>, <<"apple", "banana">>}

\* the amounts incrementScore is called with: an increment and a decrement
Amounts == {1, -1}

\* the seconds a TIMER_UPDATE message reports
TimerValues == 0..MaxTimeLeft

\* the snapshots of inbound scoreUpdate messages
Snapshots == {("p1" :> 3), ("host" :> 0 @@ "p1" :> 3)}

\* a message of the WebSocket context: TIMER_UPDATE has payload.timeLeft,
\* scoreUpdate has scores
Message(type, seconds, snapshot) == [type |-> type, timeLeft |-> seconds, scores |-> snapshot]

Messages ==
    {Message("TIMER_UPDATE", n, EmptyRec) : n \in TimerValues}
        \cup {Message("GAME_OVER", 0, EmptyRec)}
        \cup {Message("scoreUpdate", 0, s) : s \in Snapshots}

\* the positions a peer reports in an item-removal notification: 19 and 20 units
\* below the top of the first lane, and the scene center
RemovePoints == {<<256, 19>>, <<256, 20>>, <<512, 384>>}

lanePositionsShifted == <<256, 512, 1024>>

lanePositions == <<256, 512, 768>>

centerX == 512

centerY == 384

radius == 20

Range(s) == {s[k] : k \in 1..Len(s)}

Max(a, b) == IF a >= b THEN a ELSE b

Min(S) == CHOOSE m \in S : \A n \in S : m <= n

----------------------------------------------------------------------------
(* What a handler publishes on the event bus and hands to the send function *)

Effect(kind, event, playerId, scores, foodId, x, y) ==
    [kind |-> kind, event |-> event, playerId |-> playerId, scores |-> scores,
     foodId |-> foodId, x |-> x, y |-> y]

EmitSceneReady == Effect("emit", "current-scene-ready", Null, EmptyRec, Null, 0, 0)

EmitScoreUpdate(scores) == Effect("emit", "scoreUpdate", Null, scores, Null, 0, 0)

SendScoreUpdate(playerId, scores) ==
    Effect("send", "scoreUpdate", playerId, scores, Null, 0, 0)

EmitFruitEaten(foodId, x, y) == Effect("emit", "fruit-eaten", Null, EmptyRec, foodId, x, y)

\* the record kept of a handler call: op names the handler, before is the ledger
\* the handler found (Game.playerScores for a collision, Scoreboard.playerScores
\* for an inbound scoreUpdate), again tells that the handler before it applied
\* the same snapshot
Call(op, playerId, foodId, scores, before, again) ==
    [op |-> op, playerId |-> playerId, foodId |-> foodId, scores |-> scores,
     before |-> before, again |-> again]

\* an error a handler raises and does not catch
Thrown(error) == Effect("throw", error, Null, EmptyRec, Null, 0, 0)

Throws(effects) == {k \in 1..Len(effects) : effects[k].kind = "throw"}

SnapshotNonZero(scores) ==
    [p \in {q \in DOMAIN scores : scores[q] # 0} |-> scores[p]]

\* { ...this.playerScores }
Snapshot(scores) == [p \in DOMAIN scores |-> scores[p]]

Sends(effects) == {k \in 1..Len(effects) : effects[k].kind = "send"}

Emits(effects, event) ==
    {k \in 1..Len(effects) : effects[k].kind = "emit" /\ effects[k].event = event}

----------------------------------------------------------------------------
(* Scoreboard.ts *)

\* the methods class Scoreboard defines
ScoreboardMethods == {"addPlayer", "incrementScore", "updateScoreText", "setScore"}

\* calling object.name(...): a TypeError when the object has no such method
CallMethod(methods, name) == IF name \in methods THEN <<>> ELSE <<Thrown("TypeError")>>

SetEntry(scores, id, v) ==
    [p \in DOMAIN scores \cup {id} |-> IF p = id THEN v ELSE scores[p]]

SbAddPlayer(sb, playerId) ==
    IF playerId \in DOMAIN sb THEN sb ELSE SetEntry(sb, playerId, 0)

SbSetScoreAdd(sb, playerId, newScore) ==
    [scores |-> SetEntry(sb, playerId,
                    (IF playerId \in DOMAIN sb THEN sb[playerId] ELSE 0) + newScore),
     events |-> <<>>]

SbSetScoreReplaceAll(sb, playerId, newScore) ==
    [scores |-> SetEntry(EmptyRec, playerId, newScore), events |-> <<>>]

SbSetScoreEmit(sb, playerId, newScore) ==
    [scores |-> SetEntry(sb, playerId, newScore),
     events |-> <<EmitScoreUpdate(SetEntry(sb, playerId, newScore))>>]

\* incrementScore: the new ledger and the scoreUpdate event it publishes
SbIncrementScore(sb, playerId, amount) ==
    LET known == SbAddPlayer(sb, playerId)
        scores == [known EXCEPT ![playerId] = @ + amount]
    IN [scores |-> scores, events |-> <<EmitScoreUpdate(Snapshot(scores))>>]

\* setScore: the new ledger and the events it publishes (none)
SbSetScore(sb, playerId, newScore) ==
    [scores |-> SetEntry(sb, playerId, newScore), events |-> <<>>]

----------------------------------------------------------------------------
(* Game.ts: helpers *)

\* the external-score-update handler's loop: setScore for every entry of the snapshot
RECURSIVE ApplyScores(_, _, _)
ApplyScores(sb, scores, todo) ==
    IF todo = {} THEN [scores |-> sb, events |-> <<>>]
    ELSE LET playerId == CHOOSE p \in todo : TRUE
             one == SbSetScore(sb, playerId, scores[playerId])
             rest == ApplyScores(one.scores, scores, todo \ {playerId})
         IN [scores |-> rest.scores, events |-> one.events \o rest.events]

LedgerInitSkip(scores, playerId) == scores

\* this.playerScores[playerId] = 0, as create() and addPlayer() write it
LedgerInit(scores, playerId) == SetEntry(scores, playerId, 0)

DestroyNoop(fs, i) == fs

\* GameObject.destroy(): the item leaves the group; on a dead item it changes nothing
Destroy(fs, i) == [j \in DOMAIN fs \ {i} |-> fs[j]]

RewardTwo(score) == score + 2

Reward(score) == score + 1

PenaltyNoClamp(score) == score - 1

Penalty(score) == Max(0, score - 1)

SendAlways(sender, message) == <<message>>

\* if (this.sendMessageToServer) this.sendMessageToServer(message)
SendIfAttached(sender, message) == IF sender # Null THEN <<message>> ELSE <<>>

IsCorrectOrNoTarget(foodId, target) == target = Null \/ foodId = target

\* foodId === this.currentTargetFoodId
IsCorrect(foodId, target) == foodId = target

\* the ledger after the score change of a collision
Scored(scores, playerId, isCorrect) ==
    IF isCorrect
    THEN [scores EXCEPT ![playerId] = Reward(@)]
    ELSE [scores EXCEPT ![playerId] = Penalty(@)]

FoodKeysSetOnce(pool, keys) == IF pool = <<>> THEN keys ELSE pool

\* this.foodKeys = keys
FoodKeysAfter(pool, keys) == keys

TimerMissingAlways(timer) == TRUE

\* !this.foodSpawnTimer
TimerMissing(timer) == timer = Null

DistanceSq(x1, y1, x2, y2) == (x1 - x2) * (x1 - x2) + (y1 - y2) * (y1 - y2)

RemoveMatchesInclusive(fs, foodId, x, y) ==
    {i \in DOMAIN fs : /\ fs[i].key = foodId
                       /\ DistanceSq(fs[i].x, fs[i].y, x, y) <= radius * radius}

\* the children, by creation order, that removeFruitAt's test accepts
RemoveMatches(fs, foodId, x, y) ==
    {i \in DOMAIN fs : /\ fs[i].key = foodId
                       /\ DistanceSq(fs[i].x, fs[i].y, x, y) < radius * radius}

----------------------------------------------------------------------------
(* Game.ts: state after construction *)

Init ==
    /\ created = FALSE
    /\ playerScores = EmptyRec
    /\ scoreboardTexts = EmptyRec
    /\ sbScores = EmptyRec
    /\ scoreText = EmptyRec
    /\ players = {}
    /\ foods = EmptyRec
    /\ spawned = 0
    /\ foodKeys = <<>>
    /\ currentTargetFoodId = Null
    /\ sendMessageToServer = Null
    /\ foodSpawnTimer = Null
    /\ timers = 0
    /\ out = <<>>
    /\ hits = [i \in 1..MaxItems |-> 0]
    /\ call = <<>>
    /\ peerScores = LedgerInit(EmptyRec, "host")
    /\ heardAll = SbAddPlayer(EmptyRec, "host")
    /\ heardSome = SbAddPlayer(EmptyRec, "host")
    /\ lastHeard = FALSE
    /\ missed = FALSE
    /\ lastMessage = <<>>
    /\ timeLeft = <<>>
    /\ liveScores = EmptyRec
    /\ timerDue = TRUE
    /\ boardDue = TRUE
    /\ timerHeard = <<>>
    /\ boardHeard = <<>>
    /\ mouthOpen = TRUE
    /\ setFrame = <<>>
    /\ toggles = 0
    /\ moveStrategy = "mock"
    /\ hippoX = 100
    /\ hippoY = 100
    /\ bodies = Bodies

----------------------------------------------------------------------------
(* Game.ts: handlers *)

\* create(): the food group, the scoreboard with 'host', the host's own ledger
\* entry, the hippo's overlap callback and the external-score-update handler
Create ==
    /\ ~created
    /\ created' = TRUE
    /\ foods' = EmptyRec
    /\ sbScores' = SbAddPlayer(EmptyRec, "host")
    /\ scoreText' = sbScores'
    /\ playerScores' = LedgerInit(playerScores, "host")
    /\ scoreboardTexts' = playerScores'
    /\ out' = <<EmitSceneReady>>
    /\ call' = <<>>
    /\ UNCHANGED <<players, spawned, foodKeys, currentTargetFoodId,
                   sendMessageToServer, foodSpawnTimer, timers, hits, offScene>>

SetFoodKeys(keys) ==
    /\ foodKeys' = FoodKeysAfter(foodKeys, keys)
    /\ out' = <<>>
    /\ call' = <<>>
    /\ UNCHANGED <<created, playerScores, scoreboardTexts, sbScores, scoreText,
                   players, foods, spawned, currentTargetFoodId,
                   sendMessageToServer, foodSpawnTimer, timers, hits, offScene>>

StartSpawningFood ==
    /\ created
    /\ IF TimerMissing(foodSpawnTimer)
       THEN /\ timers' = timers + 1
            /\ foodSpawnTimer' = "timer"
       ELSE UNCHANGED <<timers, foodSpawnTimer>>
    /\ out' = <<>>
    /\ call' = <<>>
    /\ UNCHANGED <<created, playerScores, scoreboardTexts, sbScores, scoreText,
                   players, foods, spawned, foodKeys, currentTargetFoodId,
                   sendMessageToServer, hits, offScene>>

\* this.foods.create(x, y, key)
CreateFood(key, x, y) ==
    /\ spawned < MaxItems
    /\ spawned' = spawned + 1
    /\ foods' = [i \in DOMAIN foods \cup {spawned + 1} |->
                    IF i = spawned + 1 THEN [key |-> key, x |-> x, y |-> y]
                    ELSE foods[i]]

\* spawnFood(): the callback of a registered spawn timer
SpawnFood ==
    /\ created
    /\ timers >= 1
    /\ IF Len(foodKeys) = 0
       THEN UNCHANGED <<foods, spawned>>
       ELSE \E randomLaneX \in Range(lanePositions), randomKey \in Range(foodKeys) :
                CreateFood(randomKey, randomLaneX, 0)
    /\ out' = <<>>
    /\ call' = <<>>
    /\ UNCHANGED <<created, playerScores, scoreboardTexts, sbScores, scoreText,
                   players, foodKeys, currentTargetFoodId, sendMessageToServer,
                   foodSpawnTimer, timers, hits, offScene>>

\* addFoodManually(foodKey, angle): the angle only sets the velocity
AddFoodManually(foodKey) ==
    /\ created
    /\ CreateFood(foodKey, centerX, centerY)
    /\ out' = <<>>
    /\ call' = <<>>
    /\ UNCHANGED <<created, playerScores, scoreboardTexts, sbScores, scoreText,
                   players, foodKeys, currentTargetFoodId, sendMessageToServer,
                   foodSpawnTimer, timers, hits, offScene>>

SetTargetFood(foodId) ==
    /\ currentTargetFoodId' = foodId
    /\ out' = <<>>
    /\ call' = <<>>
    /\ UNCHANGED <<created, playerScores, scoreboardTexts, sbScores, scoreText,
                   players, foods, spawned, foodKeys, sendMessageToServer,
                   foodSpawnTimer, timers, hits, offScene>>

\* addPlayer(playerId, x, y): the sprite, its overlap callback and its label are
\* created once per id; the two ledger writes happen on every call
AddPlayer(playerId) ==
    /\ created
    /\ sbScores' = SbAddPlayer(sbScores, playerId)
    /\ scoreText' = sbScores'
    /\ playerScores' = LedgerInit(playerScores, playerId)
    /\ players' = players \cup {playerId}
    /\ out' = <<>>
    /\ call' = <<>>
    /\ UNCHANGED <<created, scoreboardTexts, foods, spawned, foodKeys,
                   currentTargetFoodId, sendMessageToServer, foodSpawnTimer,
                   timers, hits, offScene>>

CollisionEffectsEatenFirst(sender, playerId, scores, fruit) ==
    <<EmitFruitEaten(fruit.key, fruit.x, fruit.y)>>
        \o <<EmitScoreUpdate(Snapshot(scores))>>
        \o SendIfAttached(sender, SendScoreUpdate(playerId, Snapshot(scores)))

\* what handleFruitCollision publishes and sends once the ledger is `scores`, in
\* the order of the code: the scoreUpdate event, the message, fruit-eaten
CollisionEffects(sender, playerId, scores, fruit) ==
    <<EmitScoreUpdate(Snapshot(scores))>>
        \o SendIfAttached(sender, SendScoreUpdate(playerId, Snapshot(scores)))
        \o <<EmitFruitEaten(fruit.key, fruit.x, fruit.y)>>

\* handleFruitCollision(playerId, fruit), with fs the group as the caller left it
HandleFruitCollision(playerId, i, fruit, fs) ==
    LET foodId == fruit.key
        isCorrect == IsCorrect(foodId, currentTargetFoodId)
        scores == Scored(playerScores, playerId, isCorrect)
        effects == CollisionEffects(sendMessageToServer, playerId, scores, fruit)
    IN /\ foods' = Destroy(fs, i)
       /\ playerScores' = scores
       /\ scoreboardTexts' = scores
       /\ out' = effects
       /\ hits' = [hits EXCEPT ![i] = @ + 1]
       /\ call' = <<Call("collision", playerId, foodId, EmptyRec, playerScores, FALSE)>>
       /\ UNCHANGED <<created, sbScores, scoreText, players, spawned, foodKeys,
                      currentTargetFoodId, sendMessageToServer, foodSpawnTimer,
                      timers, offScene>>

\* handleFoodCollision: the hippo overlaps a member of the food group
HostOverlap(i) ==
    /\ created
    /\ i \in DOMAIN foods
    /\ HandleFruitCollision("host", i, foods[i], Destroy(foods, i))

\* the overlap callback addPlayer registers for the sprite of playerId
PlayerOverlap(playerId, i) ==
    /\ playerId \in players
    /\ i \in DOMAIN foods
    /\ HandleFruitCollision(playerId, i, foods[i], foods)

SetSendMessage ==
    /\ sendMessageToServer' = "sendFn"
    /\ out' = <<>>
    /\ call' = <<>>
    /\ UNCHANGED <<created, playerScores, scoreboardTexts, sbScores, scoreText,
                   players, foods, spawned, foodKeys, currentTargetFoodId,
                   foodSpawnTimer, timers, hits, offScene>>

\* the handler create() registers for 'external-score-update'
ExternalScoreUpdate(scores) ==
    LET applied == ApplyScores(sbScores, scores, DOMAIN scores)
    IN /\ created
       /\ sbScores' = applied.scores
       /\ scoreText' = applied.scores
       /\ out' = applied.events
       /\ call' = <<Call("scoreUpdate", Null, Null, scores, sbScores,
                        /\ call # <<>>
                        /\ call[1].op = "scoreUpdate"
                        /\ call[1].scores = scores)>>
       /\ UNCHANGED <<created, playerScores, scoreboardTexts, players, foods,
                      spawned, foodKeys, currentTargetFoodId, sendMessageToServer,
                      foodSpawnTimer, timers, hits, offScene>>

RemoveFruitAt(foodId, x, y) ==
    LET matches == RemoveMatches(foods, foodId, x, y)
    IN /\ created
       /\ foods' = IF matches = {} THEN foods ELSE Destroy(foods, Min(matches))
       /\ out' = <<>>
       /\ call' = <<>>
       /\ UNCHANGED <<created, playerScores, scoreboardTexts, sbScores, scoreText,
                      players, spawned, foodKeys, currentTargetFoodId,
                      sendMessageToServer, foodSpawnTimer, timers, hits, offScene>>

\* update(): the per-step refresh of the score labels.  The loop body runs for
\* the ids that own a sprite and a label (addPlayer creates both together); its
\* first round calls this.scoreboard.getScore, and the error ends the handler
\* before any label text is set.
Update ==
    /\ created
    /\ out' = IF players = {} THEN <<>>
              ELSE CallMethod(ScoreboardMethods, "getScore")
    /\ call' = <<>>
    /\ UNCHANGED <<created, playerScores, scoreboardTexts, sbScores, scoreText,
                   players, foods, spawned, foodKeys, currentTargetFoodId,
                   sendMessageToServer, foodSpawnTimer, timers, hits, offScene>>

\* food && food.texture
HasTexture(body) == body = "image"

\* 'texture' in fruit && fruit instanceof Phaser.GameObjects.Sprite
IsSpriteWithTexture(body) == FALSE

\* handleFruitCollision(playerId, fruit) for a fruit that is not an item:
\* fruit.destroy() comes first, the test of the fruit second; playerId is used
\* only after the test
HandleBodyCollision(playerId, body) ==
    /\ bodies' = bodies \ {body}
    /\ ~IsSpriteWithTexture(body)    \* the test fails: nothing after it runs
    /\ out' = <<>>
    /\ call' = <<>>
    /\ UNCHANGED <<created, playerScores, scoreboardTexts, sbScores, scoreText,
                   players, foods, spawned,
                   foodKeys, currentTargetFoodId, sendMessageToServer,
                   foodSpawnTimer, timers, hits, relay, page, hippo>>

\* handleFoodCollision with a second body that is not an item
HostOverlapBody(body) ==
    /\ created
    /\ body \in bodies
    /\ IF HasTexture(body)
       THEN HandleBodyCollision("host", body)
       ELSE /\ out' = <<>>
            /\ call' = <<>>
            /\ UNCHANGED <<created, playerScores, scoreboardTexts, sbScores,
                           scoreText, players, foods, spawned, foodKeys,
                           currentTargetFoodId, sendMessageToServer,
                           foodSpawnTimer, timers, hits, offScene>>

\* the sprite's overlap callback with a second body that is not an item: a
\* GameObject is handed on as it is
PlayerOverlapBody(playerId, body) ==
    /\ playerId \in players
    /\ body \in bodies
    /\ HandleBodyCollision(playerId, body)

\* the overlap colliders registered with the food group, each with the id its
\* callback scores under: the hippo of create() and the sprites of addPlayer
Colliders ==
    (IF created THEN {<<"hippo", "host">>} ELSE {})
        \cup {<<"sprite", playerId>> : playerId \in players}

Next ==
    \/ Create
    \/ \E keys \in KeyLists : SetFoodKeys(keys)
    \/ StartSpawningFood
    \/ SpawnFood
    \/ \E foodKey \in FoodIds : AddFoodManually(foodKey)
    \/ \E foodId \in FoodIds : SetTargetFood(foodId)
    \/ \E playerId \in PlayerIds : AddPlayer(playerId)
    \/ \E i \in 1..MaxItems : HostOverlap(i)
    \/ \E playerId \in PlayerIds, i \in 1..MaxItems : PlayerOverlap(playerId, i)
    \/ SetSendMessage
    \/ \E scores \in Snapshots : ExternalScoreUpdate(scores)
    \/ \E foodId \in FoodIds, p \in RemovePoints : RemoveFruitAt(foodId, p[1], p[2])
    \/ Update

Spec == Init /\ [][Next]_vars

----------------------------------------------------------------------------
(* The Scoreboard called through its public methods, from its construction *)

ScoreboardAddPlayer(playerId) ==
    /\ sbScores' = SbAddPlayer(sbScores, playerId)
    /\ scoreText' = sbScores'
    /\ out' = <<>>
    /\ call' = <<>>
    /\ UNCHANGED <<created, playerScores, scoreboardTexts, players, foods, spawned,
                   foodKeys, currentTargetFoodId, sendMessageToServer,
                   foodSpawnTimer, timers, hits, offScene>>

ScoreboardIncrementScore(playerId, amount) ==
    LET result == SbIncrementScore(sbScores, playerId, amount)
    IN /\ result.scores[playerId] \in -MaxLedgerScore..MaxLedgerScore
       /\ sbScores' = result.scores
       /\ scoreText' = result.scores
       /\ out' = result.events
       /\ call' = <<>>
       /\ UNCHANGED <<created, playerScores, scoreboardTexts, players, foods,
                      spawned, foodKeys, currentTargetFoodId, sendMessageToServer,
                      foodSpawnTimer, timers, hits, offScene>>

NextLedger ==
    \/ \E playerId \in PlayerIds : ScoreboardAddPlayer(playerId)
    \/ \E playerId \in PlayerIds, amount \in Amounts :
          ScoreboardIncrementScore(playerId, amount)

SpecLedger == Init /\ [][NextLedger]_vars

----------------------------------------------------------------------------
(* The overlap callbacks, called with items and with objects that are not items *)

NextOverlap ==
    \/ Create
    \/ \E foodKey \in FoodIds : AddFoodManually(foodKey)
    \/ \E foodId \in FoodIds : SetTargetFood(foodId)
    \/ \E playerId \in PlayerIds : AddPlayer(playerId)
    \/ \E i \in 1..MaxItems : HostOverlap(i)
    \/ \E playerId \in PlayerIds, i \in 1..MaxItems : PlayerOverlap(playerId, i)
    \/ \E body \in Bodies : HostOverlapBody(body)
    \/ \E playerId \in PlayerIds, body \in Bodies : PlayerOverlapBody(playerId, body)

SpecOverlap == Init /\ [][NextOverlap]_vars

----------------------------------------------------------------------------
(* GameTimer.tsx and LiveScoreboard.tsx under one WebSocket context.  A new     *)
(* lastMessage renders both components again, and each runs its effect once    *)
(* for the lastMessage of its latest render.                                   *)

TimeLeftAfterNoGameOver(state, message) ==
    IF message # <<>> /\ message[1].type = "TIMER_UPDATE"
    THEN <<message[1].timeLeft>>
    ELSE state

\* GameTimer's effect: the state after it
TimeLeftAfter(state, message) ==
    IF message # <<>> /\ message[1].type = "TIMER_UPDATE"
    THEN <<message[1].timeLeft>>
    ELSE IF message # <<>> /\ message[1].type = "GAME_OVER"
         THEN <<0>>
         ELSE state

ScoresAfterMerge(state, message) ==
    IF message # <<>> /\ message[1].type = "scoreUpdate"
    THEN message[1].scores @@ state
    ELSE state

\* LiveScoreboard's effect: the state after it
ScoresAfter(state, message) ==
    IF message # <<>> /\ message[1].type = "scoreUpdate"
    THEN message[1].scores
    ELSE state

\* the context stores a message it received
Receive(message) ==
    /\ lastMessage' = <<message>>
    /\ timerDue' = TRUE
    /\ boardDue' = TRUE
    /\ UNCHANGED <<timeLeft, liveScores, timerHeard, boardHeard, offPage>>

GameTimerEffect ==
    /\ timerDue
    /\ timeLeft' = TimeLeftAfter(timeLeft, lastMessage)
    /\ timerDue' = FALSE
    /\ timerHeard' = IF /\ lastMessage # <<>>
                        /\ lastMessage[1].type \in {"TIMER_UPDATE", "GAME_OVER"}
                     THEN lastMessage
                     ELSE timerHeard
    /\ UNCHANGED <<lastMessage, liveScores, boardDue, boardHeard, offPage>>

LiveScoreboardEffect ==
    /\ boardDue
    /\ liveScores' = ScoresAfter(liveScores, lastMessage)
    /\ boardDue' = FALSE
    /\ boardHeard' = IF lastMessage # <<>> /\ lastMessage[1].type = "scoreUpdate"
                     THEN lastMessage
                     ELSE boardHeard
    /\ UNCHANGED <<lastMessage, timeLeft, timerDue, timerHeard, offPage>>

NextPage ==
    \/ \E message \in Messages : Receive(message)
    \/ GameTimerEffect
    \/ LiveScoreboardEffect

SpecPage == Init /\ [][NextPage]_vars

----------------------------------------------------------------------------
(* The Hippo of Hippo.test.ts: new Hippo(scene, 100, 100, texture, strategy).   *)

MouthAfterToggleShut(open) == FALSE

\* toggleMouth flips the mouth
MouthAfterToggle(open) == ~open

\* the frame toggleMouth sets: 3 for a closed mouth, 0 for an open one
MouthFrame(open) == IF open THEN 0 ELSE 3

ToggleMouth ==
    /\ toggles < MaxToggles
    /\ mouthOpen' = MouthAfterToggle(mouthOpen)
    /\ setFrame' = <<MouthFrame(mouthOpen')>>
    /\ toggles' = toggles + 1
    /\ UNCHANGED <<moveStrategy, hippoX, hippoY, offHippo>>

SetStrategy(strategy) ==
    /\ moveStrategy' = strategy
    /\ UNCHANGED <<mouthOpen, setFrame, toggles, hippoX, hippoY, offHippo>>

\* update(cursors) delegates to the strategy; an EdgeSlideStrategy locks the
\* sprite to its edge
HippoUpdate ==
    /\ hippoX' = CASE moveStrategy = "left" -> edgeOffset
                   [] moveStrategy = "right" -> sceneWidth - edgeOffset
                   [] OTHER -> hippoX
    /\ hippoY' = CASE moveStrategy = "top" -> edgeOffset
                   [] moveStrategy = "bottom" -> sceneHeight - edgeOffset
                   [] OTHER -> hippoY
    /\ UNCHANGED <<mouthOpen, setFrame, toggles, moveStrategy, offHippo>>

NextHippo ==
    \/ ToggleMouth
    \/ \E strategy \in Strategies : SetStrategy(strategy)
    \/ HippoUpdate

SpecHippo == Init /\ [][NextHippo]_vars

----------------------------------------------------------------------------
(* A peer's scene relays its scores to this client's scoreboard.  The peer has *)
(* run create() and has a sender attached; so has this client.  Each message   *)
(* of the peer is applied here by the external-score-update handler, or lost.  *)

\* the peer's addPlayer: its ledger entry is set to 0
PeerAddPlayer(playerId) ==
    /\ peerScores' = LedgerInit(peerScores, playerId)
    /\ UNCHANGED <<heardAll, heardSome, lastHeard, missed, offRelay>>

\* a scoring collision on the peer: the score change, then the message with the
\* snapshot of its whole ledger, which arrives here or is dropped
PeerCollision(playerId, isCorrect, dropped) ==
    LET scores == Scored(peerScores, playerId, isCorrect)
        message == SendScoreUpdate(playerId, Snapshot(scores))
    IN /\ playerId \in DOMAIN peerScores
       /\ isCorrect => peerScores[playerId] < MaxPeerScore
       /\ peerScores' = scores
       /\ heardAll' = ApplyScores(heardAll, message.scores, DOMAIN message.scores).scores
       /\ heardSome' = IF dropped THEN heardSome
                       ELSE ApplyScores(heardSome, message.scores,
                                        DOMAIN message.scores).scores
       /\ lastHeard' = ~dropped
       /\ missed' = (missed \/ dropped)
       /\ UNCHANGED offRelay

\* addPlayer on this client between two messages
ReceiverAddPlayer(playerId) ==
    /\ heardAll' = SbAddPlayer(heardAll, playerId)
    /\ heardSome' = SbAddPlayer(heardSome, playerId)
    /\ UNCHANGED <<peerScores, lastHeard, missed, offRelay>>

NextRelay ==
    \/ \E playerId \in PlayerIds : PeerAddPlayer(playerId)
    \/ \E playerId \in PlayerIds, isCorrect \in BOOLEAN, dropped \in BOOLEAN :
          PeerCollision(playerId, isCorrect, dropped)
    \/ \E playerId \in PlayerIds : ReceiverAddPlayer(playerId)

SpecRelay == Init /\ [][NextRelay]_vars

----------------------------------------------------------------------------
(* Properties *)

ItemIds == 1..MaxItems

\* the last handler was a scoring collision
AfterCollision == call # <<>> /\ call[1].op = "collision"

\* the last handler was the external-score-update handler
AfterScoreUpdate == call # <<>> /\ call[1].op = "scoreUpdate"

RECURSIVE SumHits(_, _)
SumHits(h, n) == IF n = 0 THEN 0 ELSE h[n] + SumHits(h, n - 1)

\* the score the collision rule gives a player at `score` for an item of key foodId
Expected(score, foodId) ==
    IF foodId = currentTargetFoodId THEN score + 1
    ELSE IF score - 1 > 0 THEN score - 1 ELSE 0

\* C1: a collision of a player that has a ledger entry with a live item changes
\* that player's score by +1 when the item's key is the current target and to
\* max(0, score - 1) otherwise, and changes no other player's score.
C1_CollisionScoring ==
    (AfterCollision /\ call[1].playerId \in DOMAIN call[1].before) =>
        LET p == call[1].playerId
            before == call[1].before
        IN /\ DOMAIN playerScores = DOMAIN before
           /\ playerScores[p] = Expected(before[p], call[1].foodId)
           /\ \A q \in DOMAIN before \ {p} : playerScores[q] = before[q]

\* p1 ate a target item (1 -> 2) while host, also in the ledger, stayed at 0
C1_Witness ==
    /\ AfterCollision
    /\ call[1].playerId = "p1"
    /\ call[1].foodId = currentTargetFoodId
    /\ call[1].before = ("host" :> 0 @@ "p1" :> 1)
    /\ playerScores = ("host" :> 0 @@ "p1" :> 2)

\* C2: every entry of the ledger that collisions mutate is an integer >= 0, and
\* every published or sent snapshot holds only values >= 0.
C2_ScoresNonNegative ==
    /\ \A p \in DOMAIN playerScores : playerScores[p] \in Nat
    /\ \A k \in 1..Len(out) :
          \A p \in DOMAIN out[k].scores : out[k].scores[p] \in Nat

\* a wrong item was eaten by a player at score 0: the penalty was clamped
C2_Witness ==
    /\ AfterCollision
    /\ call[1].foodId # currentTargetFoodId
    /\ currentTargetFoodId # Null
    /\ call[1].before[call[1].playerId] = 0
    /\ playerScores[call[1].playerId] = 0
    /\ out[1].scores = playerScores

\* C3: an item is scored at most once: no item that was scored is still live,
\* and no item is scored a second time, whichever colliders overlap it.
C3_ScoredAtMostOnce ==
    \A i \in ItemIds :
        /\ hits[i] <= 1
        /\ i \in DOMAIN foods => hits[i] = 0

\* item 1 was scored once while the hippo and the sprite of p1 both collide with
\* the food group, and item 2 died by a remote removal without being scored
C3_Witness ==
    /\ "p1" \in players
    /\ spawned = 2
    /\ DOMAIN foods = {}
    /\ hits[1] = 1
    /\ hits[2] = 0

\* C4: applying an inbound scoreUpdate snapshot sets the Scoreboard ledger entry of
\* every id in the snapshot to the snapshot's value and leaves the entry of every
\* id absent from the snapshot as it was.
C4_SnapshotOverwritesPresentIds ==
    AfterScoreUpdate =>
        LET s == call[1].scores
            before == call[1].before
        IN /\ DOMAIN sbScores = DOMAIN before \cup DOMAIN s
           /\ \A id \in DOMAIN s : sbScores[id] = s[id]
           /\ \A id \in DOMAIN before \ DOMAIN s : sbScores[id] = before[id]

\* host and p1 were at 0, the snapshot {p1: 3} was applied: {host: 0, p1: 3}
C4_Witness ==
    /\ AfterScoreUpdate
    /\ call[1].scores = ("p1" :> 3)
    /\ call[1].before = ("host" :> 0 @@ "p1" :> 0)
    /\ sbScores = ("host" :> 0 @@ "p1" :> 3)

\* C5: when the handler before this one applied the same snapshot, applying it
\* again leaves the Scoreboard ledger exactly as the first application left it.
C5_SnapshotIdempotent ==
    (AfterScoreUpdate /\ call[1].again) => sbScores = call[1].before

\* the same snapshot, one that changed the ledger, was applied twice in a row
C5_Witness ==
    /\ AfterScoreUpdate
    /\ call[1].again
    /\ call[1].scores = ("host" :> 0 @@ "p1" :> 3)
    /\ sbScores = ("host" :> 0 @@ "p1" :> 3)

\* C6: a handler that is not a scoring collision, the inbound scoreUpdate handler
\* and removeFruitAt among them, sends nothing and publishes neither scoreUpdate
\* nor fruit-eaten; a collision sends at most one message.
C6_NoRebroadcast ==
    /\ ~AfterCollision =>
          /\ Sends(out) = {}
          /\ Emits(out, "scoreUpdate") = {}
          /\ Emits(out, "fruit-eaten") = {}
    /\ Cardinality(Sends(out)) <= 1

\* with a sender attached, after one item was scored and the other destroyed by
\* a remote removal, an inbound snapshot was applied: nothing published or sent
C6_Witness ==
    /\ AfterScoreUpdate
    /\ out = <<>>
    /\ sendMessageToServer # Null
    /\ SumHits(hits, MaxItems) = 1
    /\ spawned = 2
    /\ DOMAIN foods = {}

\* C7 (as claimed): addPlayer for an id whose score is nonzero leaves that score.
C7_AddPlayerKeepsScore ==
    [][\A id \in PlayerIds :
          (AddPlayer(id) /\ id \in DOMAIN playerScores /\ playerScores[id] > 0) =>
              playerScores'[id] = playerScores[id]]_vars

\* C8: a scoring collision publishes one scoreUpdate event whose snapshot is the
\* whole ledger after the score change and, when a sender is attached, sends one
\* message of type scoreUpdate with the acting player's id and the same snapshot.
C8_SnapshotIsWholeLedger ==
    AfterCollision =>
        /\ Cardinality(Emits(out, "scoreUpdate")) = 1
        /\ \A k \in Emits(out, "scoreUpdate") : out[k].scores = playerScores
        /\ sendMessageToServer # Null =>
              /\ Cardinality(Sends(out)) = 1
              /\ \A k \in Sends(out) :
                    /\ out[k].event = "scoreUpdate"
                    /\ out[k].playerId = call[1].playerId
                    /\ out[k].scores = playerScores

\* target apple, host at 1 after an apple, then a banana eaten by the host with
\* p1 in the ledger: the published and the sent snapshot are {host: 0, p1: 0}
C8_Witness ==
    /\ AfterCollision
    /\ currentTargetFoodId = "apple"
    /\ call[1].foodId = "banana"
    /\ call[1].before = ("host" :> 1 @@ "p1" :> 0)
    /\ Len(out) = 3
    /\ out[1].scores = ("host" :> 0 @@ "p1" :> 0)
    /\ out[2].kind = "send"
    /\ out[2].playerId = "host"
    /\ out[2].scores = ("host" :> 0 @@ "p1" :> 0)

\* C9: a collision publishes its scoreUpdate event and updates the ledger whether
\* or not a sender is attached; it sends one message when one is attached and none
\* otherwise; no other handler, attaching the sender included, sends anything.
C9_UnattachedSenderSkipsSend ==
    IF AfterCollision
    THEN /\ Emits(out, "scoreUpdate") # {}
         /\ playerScores[call[1].playerId] =
               Expected(call[1].before[call[1].playerId], call[1].foodId)
         /\ Cardinality(Sends(out)) = IF sendMessageToServer = Null THEN 0 ELSE 1
    ELSE Sends(out) = {}

\* a collision scored a point with no sender attached: published, nothing sent
C9_Witness ==
    /\ AfterCollision
    /\ sendMessageToServer = Null
    /\ Sends(out) = {}
    /\ Emits(out, "scoreUpdate") # {}
    /\ call[1].before["host"] = 0
    /\ playerScores["host"] = 1

\* C10: at most one spawn timer is ever registered, and once startSpawningFood has
\* stored its timer exactly one is registered, however often it is called again.
C10_SingleSpawnTimer ==
    /\ timers <= 1
    /\ foodSpawnTimer # Null => timers = 1

\* the one timer is registered and has ticked: a lane item was spawned
C10_Witness ==
    /\ foodSpawnTimer # Null
    /\ timers = 1
    /\ \E i \in DOMAIN foods : foods[i].y = 0

\* the notification a peer sends for the item the last collision ate: the
\* fruit-eaten payload of that collision
EatenItem == out[Len(out)]

C12_LostUpdatesTolerated == lastHeard => heardSome = heardAll

\* after a dropped message the latest one arrived, and it changed both scores
C12_Witness ==
    /\ missed
    /\ lastHeard
    /\ peerScores = ("host" :> 1 @@ "p1" :> 2)
    /\ heardSome = ("host" :> 1 @@ "p1" :> 2)

\* C13 (as claimed): after any sequence of Scoreboard.addPlayer and
\* Scoreboard.incrementScore calls, with positive and with negative amounts,
\* every score of the Scoreboard ledger is >= 0.
C13_LedgerNonNegative == \A id \in DOMAIN sbScores : sbScores[id] >= 0

\* C14 (as claimed): after any sequence of create and addPlayer calls, at most
\* one entity scores collisions for each player id, 'host' included.
C14_OneEntityPerId ==
    \A id \in PlayerIds : Cardinality({c \in Colliders : c[2] = id}) <= 1

RECURSIVE SumScores(_, _)
SumScores(scores, ids) ==
    IF ids = {} THEN 0
    ELSE LET id == CHOOSE p \in ids : TRUE
         IN scores[id] + SumScores(scores, ids \ {id})

\* C15: every id a collider scores under ('host' once create() has run, every id
\* given to addPlayer) has an integer entry in the ledger collisions mutate and
\* an entry in the Scoreboard ledger; the entries start at 0: together they never
\* exceed the number of collisions scored.
C15_EntityHasLedgerEntry ==
    /\ \A c \in Colliders :
          /\ c[2] \in DOMAIN playerScores
          /\ playerScores[c[2]] \in Int
          /\ c[2] \in DOMAIN sbScores
    /\ SumScores(playerScores, DOMAIN playerScores) <= SumHits(hits, MaxItems)

\* the sprite of p1 ate a target item: the collision found the entry 0 that
\* addPlayer had written and raised it to 1
C15_Witness ==
    /\ AfterCollision
    /\ call[1].playerId = "p1"
    /\ <<"sprite", "p1">> \in Colliders
    /\ call[1].before["p1"] = 0
    /\ playerScores["p1"] = 1

\* C16 (as claimed): the per-step label refresh, which asks the Scoreboard for
\* the score of every player entity, never raises an error; nor does any other
\* handler.
C16_LabelRefreshNeverFails == Throws(out) = {}

\* C17: while no target has been set, every score of the ledger collisions
\* mutate is 0: a collision with any item is a mismatch and raises no score.
C17_NoTargetNoPoints ==
    currentTargetFoodId = Null =>
        /\ \A p \in DOMAIN playerScores : playerScores[p] = 0
        /\ \A k \in Emits(out, "scoreUpdate") :
              \A p \in DOMAIN out[k].scores : out[k].scores[p] = 0

\* with no target set, the hippo and the sprite of p1 have eaten both items, an
\* apple among them, and both scores are still 0
C17_Witness ==
    /\ currentTargetFoodId = Null
    /\ AfterCollision
    /\ SumHits(hits, MaxItems) = 2
    /\ call[1].playerId = "p1"
    /\ call[1].foodId = "apple"
    /\ playerScores = ("host" :> 0 @@ "p1" :> 0)

\* C18: GameTimer's timeLeft is null exactly while its effect has seen neither a
\* TIMER_UPDATE nor a GAME_OVER message; afterwards it is the value of the last
\* such message seen (payload.timeLeft, or 0 for GAME_OVER), whatever messages of
\* other types came after it.
C18_TimerShowsLastTimerMessage ==
    /\ timerHeard = <<>> <=> timeLeft = <<>>
    /\ timerHeard # <<>> =>
          timeLeft = IF timerHeard[1].type = "GAME_OVER"
                     THEN <<0>>
                     ELSE <<timerHeard[1].timeLeft>>

\* TIMER_UPDATE 2 was shown, then GAME_OVER, then a scoreUpdate was seen by the
\* timer: it still shows 0
C18_Witness ==
    /\ timerHeard # <<>>
    /\ timerHeard[1].type = "GAME_OVER"
    /\ lastMessage # <<>>
    /\ lastMessage[1].type = "scoreUpdate"
    /\ ~timerDue
    /\ timeLeft = <<0>>

\* C19: the hippo's mouth is open after construction and after every even number
\* of toggleMouth calls, closed after every odd number, and the frame set by the
\* last toggleMouth is 3 when it closed the mouth and 0 when it opened it.
C19_MouthIsTwoStateToggle ==
    /\ mouthOpen = (toggles % 2 = 0)
    /\ toggles = 0 => setFrame = <<>>
    /\ toggles > 0 => setFrame = IF mouthOpen THEN <<0>> ELSE <<3>>

\* two toggles, with a change of strategy and an update in between: open again
C19_Witness ==
    /\ toggles = 2
    /\ mouthOpen
    /\ setFrame = <<0>>
    /\ moveStrategy = "top"
    /\ hippoY = edgeOffset

\* C20: when the external-score-update handler has set a player P of the local
\* ledger to v and the very next handler is a local collision of another player Q, the snapshot that
\* collision publishes carries P = v, and the Scoreboard's entry of P (the score
\* shown for P) equals what the snapshot reports.
C20_InboundAndLocalShareLedger ==
    [][( /\ AfterScoreUpdate
         /\ call' # <<>>
         /\ call'[1].op = "collision" ) =>
           \A P \in (DOMAIN call[1].scores \cap DOMAIN playerScores)
                        \ {call'[1].playerId} :
              \A k \in Emits(out', "scoreUpdate") :
                 /\ P \in DOMAIN out'[k].scores
                 /\ out'[k].scores[P] = call[1].scores[P]
                 /\ sbScores'[P] = out'[k].scores[P]]_vars

\* the live items removeFruitAt(foodId, x, y) may destroy: the category key is
\* foodId and the distance to (x, y) is strictly less than 20
Qualifies(foodId, x, y) ==
    {i \in DOMAIN foods :
        /\ foods[i].key = foodId
        /\ (foods[i].x - x) * (foods[i].x - x)
              + (foods[i].y - y) * (foods[i].y - y) < 20 * 20}

\* C21: removeFruitAt(foodId, x, y) destroys at most one live item and only one
\* that qualifies, leaves the other items as they are, changes nothing and throws
\* nothing when no item qualifies, and never changes a score, the target category
\* or the spawn pool.
C21_RemoveFruitAtFrame ==
    [][\A foodId \in FoodIds, pt \in RemovePoints :
          (call' = <<>> /\ spawned' = spawned /\ RemoveFruitAt(foodId, pt[1], pt[2])) =>
             LET gone == DOMAIN foods \ DOMAIN foods'
             IN /\ Cardinality(gone) <= 1
                /\ gone \subseteq Qualifies(foodId, pt[1], pt[2])
                /\ DOMAIN foods' \subseteq DOMAIN foods
                /\ \A i \in DOMAIN foods' : foods'[i] = foods[i]
                /\ Qualifies(foodId, pt[1], pt[2]) = {} => foods' = foods
                /\ Throws(out') = {}
                /\ UNCHANGED <<playerScores, sbScores, scoreText, scoreboardTexts,
                               currentTargetFoodId, foodKeys>>]_vars

\* item 1, a lane item, was destroyed without ever being scored (a removal took
\* it) while item 2 at the centre stayed live and the host kept its point
C21_Witness ==
    /\ spawned = 2
    /\ 1 \notin DOMAIN foods
    /\ hits[1] = 0
    /\ 2 \in DOMAIN foods
    /\ foods[2].x = centerX
    /\ foodKeys # <<>>
    /\ currentTargetFoodId = "apple"

\* C22: an overlap callback called with a second body that is not an item changes
\* no score, publishes and sends nothing, and leaves that object alive.
C22_NonItemOverlapSkipped ==
    [][\A body \in Bodies :
          (\/ HostOverlapBody(body)
           \/ \E playerId \in PlayerIds : PlayerOverlapBody(playerId, body)) =>
             /\ UNCHANGED <<playerScores, sbScores, foods, bodies>>
             /\ out' = <<>>]_vars

\* the items a step created
NewItems == DOMAIN foods' \ DOMAIN foods

\* C23: a spawn tick with an empty allow-list creates no item and changes nothing
\* of the scene; a tick with a non-empty allow-list adds exactly one live item,
\* with a key of the current allow-list, at y = 0 in one of the lanes 256, 512,
\* 768, keeps the items that were live, and changes no score.
C23_SpawnTick ==
    [][(call' = <<>> /\ SpawnFood) =>
          IF foodKeys = <<>>
          THEN UNCHANGED <<created, playerScores, scoreboardTexts, sbScores,
                           scoreText, players, foods, spawned, foodKeys,
                           currentTargetFoodId, sendMessageToServer,
                           foodSpawnTimer, timers>>
          ELSE /\ Cardinality(NewItems) = 1
               /\ \A i \in NewItems :
                     /\ \E k \in 1..Len(foodKeys) : foods'[i].key = foodKeys[k]
                     /\ foods'[i].x \in {256, 512, 768}
                     /\ foods'[i].y = 0
               /\ \A i \in DOMAIN foods : i \in DOMAIN foods' /\ foods'[i] = foods[i]
               /\ UNCHANGED <<playerScores, sbScores, scoreText, scoreboardTexts>>]_vars

\* a tick spawned a banana in lane 768 while the host had a point, and the point
\* is still there
C23_Witness ==
    /\ timers = 1
    /\ foodKeys = <<"apple", "banana">>
    /\ \E i \in DOMAIN foods :
          foods[i] = [key |-> "banana", x |-> 768, y |-> 0]
    /\ playerScores["host"] = 1
    /\ hits[1] = 1

\* C24: setFoodKeys(K) makes K the spawn pool and leaves the live items and the
\* timer alone, nothing else changes the pool, and every tick of the timer
\* spawns from the pool as it is at that tick: with a non-empty pool it adds an
\* item with a key of that pool, whenever the timer was started.
C24_SetFoodKeysTakesEffect ==
    [][/\ \A keys \in KeyLists :
             (call' = <<>> /\ SetFoodKeys(keys)) =>
                /\ foodKeys' = keys
                /\ UNCHANGED <<foods, spawned, foodSpawnTimer, timers>>
       /\ foodKeys' # foodKeys => \E keys \in KeyLists : SetFoodKeys(keys)
       /\ (call' = <<>> /\ SpawnFood) =>
             /\ foodKeys # <<>> => NewItems # {}
             /\ \A i \in NewItems : foods'[i].key \in Range(foodKeys)
             /\ \A i \in DOMAIN foods : i \in DOMAIN foods' /\ foods'[i] = foods[i]
             /\ UNCHANGED <<foodSpawnTimer, timers>>]_vars

\* a banana spawned from the pool <<apple, banana>> is still live after the pool
\* became <<apple>>, and the next tick of the same timer spawned an apple
C24_Witness ==
    /\ timers = 1
    /\ foodKeys = <<"apple">>
    /\ DOMAIN foods = {1, 2}
    /\ foods[1].key = "banana"
    /\ foods[1].y = 0
    /\ foods[2].key = "apple"
    /\ foods[2].y = 0

\* C25: the scores LiveScoreboard shows are the empty map until its effect has
\* seen a scoreUpdate message, and afterwards exactly the scores map of the last
\* scoreUpdate it has seen: no id of an earlier message survives, and messages of
\* other types change nothing.
C25_BoardShowsLastSnapshot ==
    liveScores = IF boardHeard = <<>> THEN EmptyRec ELSE boardHeard[1].scores

\* the board shows p1 alone although 'host' is a player of other snapshots, and a
\* timer message seen after the scoreUpdate has changed nothing
C25_Witness ==
    /\ boardHeard # <<>>
    /\ boardHeard[1].scores = ("p1" :> 3)
    /\ liveScores = ("p1" :> 3)
    /\ lastMessage # <<>>
    /\ lastMessage[1].type = "TIMER_UPDATE"
    /\ ~boardDue
    /\ timeLeft = <<0>>

\* C26: a scoring collision is one step in which the item dies, the ledger is
\* mutated, and then, in this order, the scoreUpdate event is published, the
\* scoreUpdate message is sent if a sender is attached, and fruit-eaten is
\* published with the item's key and position; the event and the message carry
\* the ledger as it is after the mutation, and the item is dead in the state every
\* one of them is observed in.
C26_CollisionStepOrder ==
    [][\A i \in ItemIds :
          (call' # <<>> /\ hits'[i] = hits[i] + 1) =>
             LET playerId == call'[1].playerId
                 last == Len(out')
             IN /\ i \in DOMAIN foods
                /\ i \notin DOMAIN foods'
                /\ playerScores'[playerId] =
                      Expected(playerScores[playerId], foods[i].key)
                /\ last = IF sendMessageToServer = Null THEN 2 ELSE 3
                /\ out'[1].kind = "emit"
                /\ out'[1].event = "scoreUpdate"
                /\ out'[1].scores = playerScores'
                /\ sendMessageToServer # Null =>
                      /\ out'[2].kind = "send"
                      /\ out'[2].event = "scoreUpdate"
                      /\ out'[2].playerId = playerId
                      /\ out'[2].scores = playerScores'
                /\ out'[last].kind = "emit"
                /\ out'[last].event = "fruit-eaten"
                /\ out'[last].foodId = foods[i].key
                /\ out'[last].x = foods[i].x
                /\ out'[last].y = foods[i].y]_vars

\* p1 ate the target apple of lane 256 with a sender attached: event, message,
\* notification, in this order, with p1's new score 1 in the first two
C26_Witness ==
    /\ AfterCollision
    /\ call[1].playerId = "p1"
    /\ call[1].before["p1"] = 0
    /\ Len(out) = 3
    /\ out[1].kind = "emit"
    /\ out[1].scores["p1"] = 1
    /\ out[2].kind = "send"
    /\ out[2].scores["p1"] = 1
    /\ out[3].event = "fruit-eaten"
    /\ out[3].foodId = "apple"
    /\ out[3].x = 256
    /\ out[3].y = 0

====
